---- MODULE Spec2Model ----
(***************************************************************************)
(* Model of the note-edit route (loader + the four successive versions of  *)
(* its action) and of the image resource route (loader + the streams it    *)
(* wires together) of epicnotes-validation-forms.                          *)
(*                                                                         *)
(* Strings are modelled by their length plus a text tag: the code only     *)
(* ever compares a field with '' and reads its .length.  A form field that *)
(* is absent (formData.get returns null) is the value Null, which is not a *)
(* string.                                                                 *)
(***************************************************************************)
EXTENDS Integers, Sequences, FiniteSets, TLC

VARIABLES
    store,      \* Note Store: note id -> [title, content]
    req,        \* the request being answered (kind, version, params, form data)
    resp,       \* the response produced for req
    updates,    \* number of update calls made on the Note Store so far
    passed,     \* number of submissions whose validation passed so far
    submits,    \* number of requests handled so far on the edit route
    client,     \* the browser showing the edit form: [hydrated, origin, js,
                \* errors, focus]
    files,      \* file system: path -> [linked, size]
    imgReq,     \* params of the image request being served
    imgResp,    \* the Response the image loader returned (or threw)
    ops,        \* collaborator calls the image loader made, in order
    rs,         \* fs.ReadStream: [state, pos, path]
    body,       \* PassThrough: [state, bytes]
    uncaught,   \* an exception escaped an event listener
    inflight,   \* concurrent invocations of action: slot -> [pc, v, form,
                \* resp]
    applied     \* slots whose update reached the Note Store, in that order

editVars == <<store, req, resp, updates, passed, submits, client>>
imageVars == <<files, imgReq, imgResp, ops, rs, body, uncaught>>
concVars == <<inflight, applied>>
vars == <<store, req, resp, updates, passed, submits, client,
          files, imgReq, imgResp, ops, rs, body, uncaught,
          inflight, applied>>

----------------------------------------------------------------------------
(* Bounds of the model *)

MaxSubmits == 2

----------------------------------------------------------------------------
(* Strings and form data *)

titleMaxLength == 1000
contentMaxLength == 10000

Str(n, t) == [len |-> n, txt |-> t]
Null == [len |-> -1, txt |-> "null"]
Empty == Str(0, "")
IsString(x) == x.len >= 0

\* the value a template literal prints for an absent route param
NoParam == "undefined"

\* the image.file field of the form: absent, or a file of some byte size
NoFile == [present |-> FALSE, size |-> 0]
File(n) == [present |-> TRUE, size |-> n]

TitleInputs ==
    { Null, Empty, Str(1, "T"), Str(5, "Hello"),
      Str(titleMaxLength, "T..."), Str(titleMaxLength + 1, "T...") }

ContentInputs ==
    { Null, Empty, Str(1, "C"), Str(5, "World"),
      Str(contentMaxLength, "C..."), Str(contentMaxLength + 1, "C...") }

ImageFiles == { File(0), File(3 * 1024 * 1024), File(3 * 1024 * 1024 + 1) }

Form(t, c, i) == [title |-> t, content |-> c, image |-> i]

\* multipart/url-encoded bodies a client can post to the edit route: every
\* title with a valid content, every content with a valid title, forms with
\* both fields invalid, and forms that carry an image file
FormInputs ==
    { Form(t, Str(5, "World"), NoFile) : t \in TitleInputs }
    \cup { Form(Str(5, "Hello"), c, NoFile) : c \in ContentInputs }
    \cup { Form(Empty, Empty, NoFile), Form(Null, Null, NoFile),
           Form(Str(titleMaxLength + 1, "T..."),
                Str(contentMaxLength + 1, "C..."), NoFile),
           Form(Empty, Str(contentMaxLength + 1, "C..."), NoFile) }
    \cup { Form(t, Str(5, "World"), i) :
              t \in {Str(5, "Hello"), Empty}, i \in ImageFiles }

NoteIdParams == {"n1", "zz", NoParam}
Usernames == {"alice"}
Versions == 1..4

NoForm == Form(Null, Null, NoFile)

----------------------------------------------------------------------------
(* Responses *)

NoErrors == [formErrors |-> <<>>, title |-> <<>>, content |-> <<>>]
NoValues == [title |-> Null, content |-> Null]

Response(status, kind) ==
    [status |-> status, kind |-> kind, message |-> "",
     structured |-> FALSE, errors |-> NoErrors,
     echoed |-> FALSE, values |-> NoValues,
     location |-> <<>>, note |-> NoValues]

NoResponse == Response(0, "none")

\* json(data, { status })
json(status) == Response(status, "json")

\* redirect(url): 302 with a Location header
redirect(url) == [Response(302, "redirect") EXCEPT !.location = url]

\* invariantResponse(condition, message, { status }) when the condition is
\* falsy: throws a Response with the message as its body
invariantResponse(message, status) ==
    [Response(status, "thrown") EXCEPT !.message = message]

\* status invariantResponse uses when the caller passes none
DefaultInvariantStatus == 400

----------------------------------------------------------------------------
(* Note Store *)

\* db.note.findFirst({ where: { id: { equals: id } } })
findFirst(db, id) == IF id \in DOMAIN db THEN {db[id]} ELSE {}

\* db.note.update with the where clause ignored: every note gets the data
dbNoteUpdate_everyNote(db, id, title, content) ==
    [n \in DOMAIN db |-> [title |-> title, content |-> content]]

\* db.note.update that writes the title and leaves the content for later
dbNoteUpdate_titleOnly(db, id, title, content) ==
    IF id \in DOMAIN db
    THEN [db EXCEPT ![id].title = title]
    ELSE db

\* db.note.update({ where: { id: { equals: id } }, data: { title, content } })
dbNoteUpdate(db, id, title, content) ==
    IF id \in DOMAIN db
    THEN [db EXCEPT ![id] = [title |-> title, content |-> content]]
    ELSE db

\* updateNote({ id, title, content })
updateNote(db, id, title, content) == dbNoteUpdate(db, id, title, content)

\* what a handler leaves behind: its response, the store, its update calls
Outcome(r, db, calls) == [resp |-> r, db |-> db, calls |-> calls]

----------------------------------------------------------------------------
(* Edit route, first file: hand-written validation *)

\* loader of the edit route (the same in all four versions)
loader_note(params, db) ==
    IF findFirst(db, params.noteId) = {}
    THEN invariantResponse("Note not found", 404)
    ELSE [json(200) EXCEPT !.note = db[params.noteId]]

\* errors_1 without the test for an empty content
errors_1_contentNotRequired(title, content) ==
    LET t1 == IF title = Empty THEN <<"Title is Required">> ELSE <<>>
        t2 == IF title.len > titleMaxLength
              THEN Append(t1, "Title must be 1000 character or less") ELSE t1
        t3 == IF content.len > contentMaxLength
              THEN Append(t2, "Content must be 10000 character or less") ELSE t2
    IN  [formErrors |-> <<>>, title |-> t3, content |-> <<>>]

\* the errors object the first action fills in
errors_1(title, content) ==
    LET t1 == IF title = Empty THEN <<"Title is Required">> ELSE <<>>
        t2 == IF title.len > titleMaxLength
              THEN Append(t1, "Title must be 1000 character or less") ELSE t1
        c1 == IF content = Empty THEN <<"Content is Required">> ELSE <<>>
        t3 == IF content.len > contentMaxLength
              THEN Append(t2, "Content must be 10000 character or less") ELSE t2
    IN  [formErrors |-> <<>>, title |-> t3, content |-> c1]

\* errors_2 with the title bound tested by >= instead of >
errors_2_titleBoundOff(title, content) ==
    LET t1 == IF title = Empty THEN <<"Title is Required">> ELSE <<>>
        t2 == IF title.len >= titleMaxLength
              THEN Append(t1, "Title must be 1000 character or less") ELSE t1
        c1 == IF content = Empty THEN <<"Content is Required">> ELSE <<>>
        t3 == IF content.len > contentMaxLength
              THEN Append(t2, "Content must be 10000 character or less") ELSE t2
    IN  [formErrors |-> <<>>, title |-> t3, content |-> c1]

\* the errors object the second action fills in
errors_2(title, content) ==
    LET t1 == IF title = Empty THEN <<"Title is Required">> ELSE <<>>
        t2 == IF title.len > titleMaxLength
              THEN Append(t1, "Title must be 1000 character or less") ELSE t1
        c1 == IF content = Empty THEN <<"Content is Required">> ELSE <<>>
        t3 == IF content.len > contentMaxLength
              THEN Append(t2, "Content must be 10000 character or less") ELSE t2
    IN  [formErrors |-> <<>>, title |-> t3, content |-> c1]

\* errors.formErrors.length > 0 || Object.values(errors.fieldErrors).some(...)
hasErrors(errors) ==
    Len(errors.formErrors) > 0 \/ Len(errors.title) > 0 \/ Len(errors.content) > 0

\* noteUrl built without the note id (a redirect to the user's note list)
noteUrl_noId(params) == <<"/users/", params.username, "/notes/">>

\* `/users/${params.username}/notes/${params.noteId}`
noteUrl(params) == <<"/users/", params.username, "/notes/", params.noteId>>

\* first version of the action: no check of params.noteId, payload { errors }
action_1(params, formData, db) ==
    LET title == formData.title
        content == formData.content
        errors == errors_1(title, content)
    IN  IF ~IsString(title)
        THEN Outcome(invariantResponse("title is required", 400), db, 0)
        ELSE IF ~IsString(content)
        THEN Outcome(invariantResponse("content is required", 400), db, 0)
        ELSE IF hasErrors(errors)
        THEN Outcome([json(400) EXCEPT !.structured = TRUE, !.errors = errors],
                     db, 0)
        ELSE Outcome(redirect(noteUrl(params)),
                     dbNoteUpdate(db, params.noteId, title, content), 1)

\* action_2 with the update made before the errors are looked at
action_2_commitFirst(params, formData, db) ==
    LET title == formData.title
        content == formData.content
        errors == errors_2(title, content)
        saved == dbNoteUpdate(db, params.noteId, title, content)
    IN  IF params.noteId = NoParam
        THEN Outcome(invariantResponse("noteId param is required!",
                                       DefaultInvariantStatus), db, 0)
        ELSE IF ~IsString(title)
        THEN Outcome(invariantResponse("title is required", 400), db, 0)
        ELSE IF ~IsString(content)
        THEN Outcome(invariantResponse("content is required", 400), db, 0)
        ELSE IF hasErrors(errors)
        THEN Outcome([json(400) EXCEPT !.message = "error",
                                       !.structured = TRUE, !.errors = errors],
                     saved, 1)
        ELSE Outcome(redirect(noteUrl(params)), saved, 1)

\* second version: params.noteId required, payload { status: 'error', errors }
action_2(params, formData, db) ==
    LET title == formData.title
        content == formData.content
        errors == errors_2(title, content)
    IN  IF params.noteId = NoParam
        THEN Outcome(invariantResponse("noteId param is required!",
                                       DefaultInvariantStatus), db, 0)
        ELSE IF ~IsString(title)
        THEN Outcome(invariantResponse("title is required", 400), db, 0)
        ELSE IF ~IsString(content)
        THEN Outcome(invariantResponse("content is required", 400), db, 0)
        ELSE IF hasErrors(errors)
        THEN Outcome([json(400) EXCEPT !.message = "error",
                                       !.structured = TRUE, !.errors = errors],
                     db, 0)
        ELSE Outcome(redirect(noteUrl(params)),
                     dbNoteUpdate(db, params.noteId, title, content), 1)

----------------------------------------------------------------------------
(* Edit route, later versions: NoteEditorSchema checked by parse() *)

\* z.string().min(1).max(max) on a form value: parse() hands an absent or
\* empty field to the schema as undefined
zString(value, max) ==
    IF ~IsString(value) \/ value = Empty THEN <<"Required">>
    ELSE IF value.len < 1
    THEN <<"String must contain at least 1 character(s)">>
    ELSE IF value.len > max
    THEN <<"String must contain at most {max} character(s)">>
    ELSE <<>>

\* z.object({ title, content }): unknown keys of the form are stripped
NoteEditorSchema(formData) ==
    [formErrors |-> <<>>,
     title |-> zString(formData.title, titleMaxLength),
     content |-> zString(formData.content, contentMaxLength)]

\* parse(formData, { schema }): payload, error and, when no rule failed, value
parse(formData) ==
    LET error == NoteEditorSchema(formData)
    IN  [payload |-> [title |-> formData.title, content |-> formData.content],
         error |-> error,
         hasValue |-> ~hasErrors(error),
         value |-> [title |-> formData.title, content |-> formData.content]]

\* third version of the action
action_3(params, formData, db) ==
    LET submission == parse(formData)
    IN  IF params.noteId = NoParam
        THEN Outcome(invariantResponse("noteId param is required!",
                                       DefaultInvariantStatus), db, 0)
        ELSE IF ~submission.hasValue
        THEN Outcome([json(400) EXCEPT !.message = "error",
                          !.structured = TRUE, !.errors = submission.error,
                          !.echoed = TRUE, !.values = submission.payload],
                     db, 0)
        ELSE Outcome(redirect(noteUrl(params)),
                     updateNote(db, params.noteId, submission.value.title,
                                submission.value.content), 1)

\* fourth version of the action (the form is driven by useForm)
action_4(params, formData, db) ==
    LET submission == parse(formData)
    IN  IF params.noteId = NoParam
        THEN Outcome(invariantResponse("noteId param is required!",
                                       DefaultInvariantStatus), db, 0)
        ELSE IF ~submission.hasValue
        THEN Outcome([json(400) EXCEPT !.message = "error",
                          !.structured = TRUE, !.errors = submission.error,
                          !.echoed = TRUE, !.values = submission.payload],
                     db, 0)
        ELSE Outcome(redirect(noteUrl(params)),
                     updateNote(db, params.noteId, submission.value.title,
                                submission.value.content), 1)

action(v, params, formData, db) ==
    CASE v = 1 -> action_1(params, formData, db)
      [] v = 2 -> action_2(params, formData, db)
      [] v = 3 -> action_3(params, formData, db)
      [] v = 4 -> action_4(params, formData, db)

----------------------------------------------------------------------------
(* The edit form *)

\* NoteEdit: the values the title and content inputs carry when the document
\* is rendered from the loader data and the action data.  The first three
\* versions set defaultValue from the loader data; the fourth hands the last
\* submission to useForm, whose payload takes precedence over defaultValue.
NoteEdit(v, data, actionData) ==
    IF v = 4 /\ actionData.echoed
    THEN actionData.values
    ELSE data.note

\* the noValidate attribute of the rendered <Form>: always set in the first
\* version, {isHydrated} in the second and third; useForm (called without
\* fallbackNative) sets it from the first render on
noValidate(v, hydrated) ==
    CASE v = 1 -> TRUE
      [] v \in {2, 3} -> hydrated
      [] v = 4 -> TRUE

\* the browser's own constraint validation of the inputs (required,
\* maxLength): a required field left empty is invalid; maxLength caps what
\* can be typed and flags nothing about a value that got there otherwise
checkValidity(form) == form.title # Empty /\ form.content # Empty

\* onValidate of useForm, evaluated on submit once the form is hydrated
onValidate_titleOnly(formData) ==
    [parse(formData) EXCEPT !.error.content = <<>>,
        !.hasValue = (parse(formData).error.title = <<>>)]

onValidate(formData) == parse(formData)

NotBlocked == [blocked |-> FALSE, errors |-> NoErrors]

\* what happens to a submit of the form in the browser, before any request
preSubmit(v, hydrated, form) ==
    IF ~noValidate(v, hydrated) /\ ~checkValidity(form)
    THEN [blocked |-> TRUE, errors |-> NoErrors]
    ELSE IF v = 4 /\ hydrated /\ ~onValidate(form).hasValue
    THEN [blocked |-> TRUE, errors |-> onValidate(form).error]
    ELSE NotBlocked

\* useFocusInvalid(formEl, hasErrors) with formEl the <Form>
useFocusInvalid(errors) ==
    IF Len(errors.formErrors) > 0 THEN "form"
    ELSE IF Len(errors.title) > 0 THEN "title"
    ELSE IF Len(errors.content) > 0 THEN "content"
    ELSE "none"

\* the useEffect of the second version: formRef is attached to the title
\* <Input>, so formEl is the title input and querySelector searches inside it
useEffect_2(actionData) ==
    IF actionData.message # "error" THEN "none"
    ELSE IF Len(actionData.errors.title) > 0 THEN "title"
    ELSE "none"

\* useForm reporting lastSubmission: the first invalid control gets focus
useForm_focus(errors) ==
    IF Len(errors.title) > 0 THEN "title"
    ELSE IF Len(errors.content) > 0 THEN "content"
    ELSE "none"

\* where the rendered form of version v moves focus for the action data
focusEffect(v, actionData) ==
    CASE v = 1 -> "none"
      [] v = 2 -> useEffect_2(actionData)
      [] v = 3 -> IF actionData.message = "error"
                  THEN useFocusInvalid(actionData.errors) ELSE "none"
      [] v = 4 -> useForm_focus(actionData.errors)

\* where focus goes when the browser or onValidate blocks the submit
focusBlocked(form, errors) ==
    IF form.title = Empty \/ Len(errors.title) > 0 THEN "title" ELSE "content"

NoClient ==
    [hydrated |-> FALSE, origin |-> "none", js |-> FALSE,
     errors |-> NoErrors, focus |-> "none"]

\* what a user can submit from the rendered form: both fields are strings
\* and this form has no file input
BrowserForms ==
    { f \in FormInputs :
        IsString(f.title) /\ IsString(f.content) /\ ~f.image.present }


----------------------------------------------------------------------------
(* The edit route as a state machine: one request at a time *)

NoRequest ==
    [kind |-> "none", v |-> 0,
     params |-> [username |-> "", noteId |-> NoParam], form |-> NoForm]

InitStore ==
    [id \in {"n1", "n2"} |->
        [title |-> Str(9, "Old title"), content |-> Str(11, "Old content")]]

InitEdit ==
    /\ store = InitStore
    /\ req = NoRequest
    /\ resp = NoResponse
    /\ updates = 0
    /\ passed = 0
    /\ submits = 0
    /\ client = NoClient

\* GET /users/{username}/notes/{noteId}/edit
Load ==
    \E u \in Usernames, id \in NoteIdParams :
        LET params == [username |-> u, noteId |-> id]
        IN  /\ req' = [kind |-> "load", v |-> 0, params |-> params,
                       form |-> NoForm]
            /\ resp' = loader_note(params, store)
            /\ client' = NoClient
            /\ UNCHANGED <<store, updates, passed, submits>>
            /\ UNCHANGED <<imageVars, concVars>>

\* POST /users/{username}/notes/{noteId}/edit, handled by version v
Submit ==
    /\ submits < MaxSubmits
    /\ \E v \in Versions, u \in Usernames, id \in NoteIdParams,
          formData \in FormInputs :
        LET params == [username |-> u, noteId |-> id]
            out == action(v, params, formData, store)
        IN  /\ req' = [kind |-> "submit", v |-> v, params |-> params,
                       form |-> formData]
            /\ resp' = out.resp
            /\ store' = out.db
            /\ updates' = updates + out.calls
            /\ passed' = passed + (IF out.resp.status = 400 THEN 0 ELSE 1)
            /\ submits' = submits + 1
            /\ client' = [NoClient EXCEPT !.origin = "http"]
            /\ UNCHANGED <<imageVars, concVars>>

\* the browser shows the edit form: the loader rendered it, or a submit of
\* the form was blocked or answered with the errors
PageShown ==
    \/ req.kind = "load" /\ resp.status = 200
    \/ client.origin = "form" /\ (req.kind = "blocked" \/ resp.status = 400)

\* the client-side code of the rendered page has loaded: useHydrate and the
\* effects run; an error response rendered by the server gets its focus
Hydrate ==
    /\ PageShown
    /\ ~client.hydrated
    /\ client' = [client EXCEPT
          !.hydrated = TRUE,
          !.focus = IF client.origin = "form" /\ req.kind = "submit"
                       /\ resp.status = 400
                    THEN focusEffect(req.v, resp) ELSE @]
    /\ UNCHANGED <<store, req, resp, updates, passed, submits>>
    /\ UNCHANGED <<imageVars, concVars>>

\* the user submits the rendered form of version v
FormSubmit ==
    /\ PageShown
    /\ submits < MaxSubmits
    /\ \E v \in Versions, formData \in BrowserForms :
        LET params == req.params
            pre == preSubmit(v, client.hydrated, formData)
            out == action(v, params, formData, store)
        IN  /\ submits' = submits + 1
            /\ IF pre.blocked
               THEN /\ req' = [kind |-> "blocked", v |-> v, params |-> params,
                               form |-> formData]
                    /\ resp' = NoResponse
                    /\ client' = [hydrated |-> client.hydrated,
                                  origin |-> "form", js |-> client.hydrated,
                                  errors |-> pre.errors,
                                  focus |-> focusBlocked(formData, pre.errors)]
                    /\ UNCHANGED <<store, updates, passed>>
               ELSE /\ req' = [kind |-> "submit", v |-> v, params |-> params,
                               form |-> formData]
                    /\ resp' = out.resp
                    /\ store' = out.db
                    /\ updates' = updates + out.calls
                    /\ passed' = passed
                                  + (IF out.resp.status = 400 THEN 0 ELSE 1)
                    /\ client' = [hydrated |-> client.hydrated,
                                  origin |-> "form", js |-> client.hydrated,
                                  errors |-> NoErrors,
                                  focus |-> IF client.hydrated
                                            THEN focusEffect(v, out.resp)
                                            ELSE "none"]
            /\ UNCHANGED <<imageVars, concVars>>

NextEdit == Load \/ Submit \/ Hydrate \/ FormSubmit

----------------------------------------------------------------------------
(* Image route: /resources/images/{imageId} *)

\* db.image: image id -> stored metadata
Images ==
    [id \in {"x1", "x2"} |->
        IF id = "x1"
        THEN [filePath |-> "img/x1", contentType |-> "image/jpeg"]
        ELSE [filePath |-> "img/x2", contentType |-> "image/png"]]

ImageIdParams == {"x1", "x2", "nope", NoParam}
Paths == {"img/x1", "img/x2"}

\* default highWaterMark of fs.createReadStream: bytes per read
highWaterMark == 64 * 1024

\* sizes a file on disk takes in the model
FileSizes == {0, 12345, highWaterMark + 1, 2 * highWaterMark}

\* Number.prototype.toString(): the decimal digits of n
RECURSIVE toString(_)
toString(n) == IF n < 10 THEN <<n>> ELSE Append(toString(n \div 10), n % 10)

NoHeaders ==
    [contentType |-> "", contentLength |-> <<>>,
     contentDisposition |-> <<>>, cacheControl |-> ""]

ImageResponse(status, message, headers) ==
    [status |-> status, message |-> message, headers |-> headers]

NoStream == [state |-> "none", pos |-> 0, path |-> ""]
NoBody == [state |-> "none", bytes |-> 0]

\* what the image loader leaves behind: the response, the collaborator calls
\* it made, and the streams it created
Served(r, calls, stream, out) ==
    [resp |-> r, ops |-> calls, rs |-> stream, body |-> out]

\* loader_image with the file stat taken before the image is looked up
loader_image_statFirst(params, fs) ==
    IF params.imageId = NoParam
    THEN Served(ImageResponse(DefaultInvariantStatus, "Invalid Image ID",
                              NoHeaders), <<>>, NoStream, NoBody)
    ELSE IF params.imageId \notin DOMAIN Images
    THEN Served(ImageResponse(404, "Image Not Found", NoHeaders),
                <<"findFirst", "stat">>, NoStream, NoBody)
    ELSE LET image == Images[params.imageId]
             fileStat == fs[image.filePath]
         IN  IF ~fileStat.linked
             THEN Served(ImageResponse(500, "ENOENT", NoHeaders),
                         <<"findFirst", "stat">>, NoStream, NoBody)
             ELSE Served(
                    ImageResponse(200, "",
                      [contentType |-> image.contentType,
                       contentLength |-> toString(fileStat.size),
                       contentDisposition |->
                           <<"inline; filename=\"", params.imageId, "\"">>,
                       cacheControl |-> "public, max-age=35136000, immutable"]),
                    <<"findFirst", "stat", "createReadStream">>,
                    [state |-> "created", pos |-> 0, path |-> image.filePath],
                    [state |-> "open", bytes |-> 0])

\* loader_image with content-length given in KiB instead of bytes
loader_image_lengthInKiB(params, fs) ==
    IF params.imageId = NoParam
    THEN Served(ImageResponse(DefaultInvariantStatus, "Invalid Image ID",
                              NoHeaders), <<>>, NoStream, NoBody)
    ELSE IF params.imageId \notin DOMAIN Images
    THEN Served(ImageResponse(404, "Image Not Found", NoHeaders),
                <<"findFirst">>, NoStream, NoBody)
    ELSE LET image == Images[params.imageId]
             fileStat == fs[image.filePath]
         IN  IF ~fileStat.linked
             THEN Served(ImageResponse(500, "ENOENT", NoHeaders),
                         <<"findFirst", "stat">>, NoStream, NoBody)
             ELSE Served(
                    ImageResponse(200, "",
                      [contentType |-> image.contentType,
                       contentLength |-> toString(fileStat.size \div 1024),
                       contentDisposition |->
                           <<"inline; filename=\"", params.imageId, "\"">>,
                       cacheControl |-> "public, max-age=35136000, immutable"]),
                    <<"findFirst", "stat", "createReadStream">>,
                    [state |-> "created", pos |-> 0, path |-> image.filePath],
                    [state |-> "open", bytes |-> 0])

\* loader of the image route, up to the Response it returns; fs is the file
\* system at the time fs.promises.stat runs
loader_image(params, fs) ==
    IF params.imageId = NoParam
    THEN Served(ImageResponse(DefaultInvariantStatus, "Invalid Image ID",
                              NoHeaders), <<>>, NoStream, NoBody)
    ELSE IF params.imageId \notin DOMAIN Images
    THEN Served(ImageResponse(404, "Image Not Found", NoHeaders),
                <<"findFirst">>, NoStream, NoBody)
    ELSE LET image == Images[params.imageId]
             fileStat == fs[image.filePath]
         IN  IF ~fileStat.linked
             THEN \* fs.promises.stat rejects with ENOENT: the loader throws
                  Served(ImageResponse(500, "ENOENT", NoHeaders),
                         <<"findFirst", "stat">>, NoStream, NoBody)
             ELSE Served(
                    ImageResponse(200, "",
                      [contentType |-> image.contentType,
                       contentLength |-> toString(fileStat.size),
                       contentDisposition |->
                           <<"inline; filename=\"", params.imageId, "\"">>,
                       cacheControl |-> "public, max-age=35136000, immutable"]),
                    <<"findFirst", "stat", "createReadStream">>,
                    [state |-> "created", pos |-> 0, path |-> image.filePath],
                    [state |-> "open", bytes |-> 0])

\* body.end(chunk) on the PassThrough: a chunk that is neither a string nor a
\* Buffer makes the write throw ERR_INVALID_ARG_TYPE before the stream is
\* marked as ending
end(out, chunk) ==
    IF chunk = "Error"
    THEN [body |-> out, threw |-> TRUE]
    ELSE IF out.state = "destroyed"
    THEN [body |-> out, threw |-> FALSE]
    ELSE [body |-> [out EXCEPT !.state = "ended"], threw |-> FALSE]

\* stream.on('error', err => body.end(err))
onError(out) == end(out, "Error")

\* stream.on('end', () => body.end())
onEnd(out) == end(out, "undefined")

InitImage ==
    /\ files = [p \in Paths |->
                  [linked |-> TRUE,
                   size |-> IF p = "img/x1" THEN 12345 ELSE highWaterMark + 1]]
    /\ imgReq = [imageId |-> NoParam, fileChanged |-> FALSE]
    /\ imgResp = ImageResponse(0, "", NoHeaders)
    /\ ops = <<>>
    /\ rs = NoStream
    /\ body = NoBody
    /\ uncaught = FALSE

Streaming == rs.state \in {"created", "open"}

\* GET /resources/images/{imageId}
ImageRequest ==
    /\ ~Streaming
    /\ \E id \in ImageIdParams :
        LET out == loader_image([imageId |-> id], files)
        IN  /\ imgReq' = [imageId |-> id, fileChanged |-> FALSE]
            /\ imgResp' = out.resp
            /\ ops' = out.ops
            /\ rs' = out.rs
            /\ body' = out.body
            /\ uncaught' = FALSE
            /\ UNCHANGED files
            /\ UNCHANGED <<editVars, concVars>>

\* the read stream opens its file: 'open' (stream.pipe(body)) or 'error'
StreamOpen ==
    /\ rs.state = "created"
    /\ IF files[rs.path].linked
       THEN /\ rs' = [rs EXCEPT !.state = "open"]
            /\ UNCHANGED <<body, uncaught>>
       ELSE /\ rs' = [rs EXCEPT !.state = "errored"]
            /\ body' = onError(body).body
            /\ uncaught' = onError(body).threw
    /\ UNCHANGED <<files, imgReq, imgResp, ops>>
    /\ UNCHANGED <<editVars, concVars>>

\* one read of the open file, piped into body
StreamRead ==
    /\ rs.state = "open"
    /\ rs.pos < files[rs.path].size
    /\ LET left == files[rs.path].size - rs.pos
           n == IF left < highWaterMark THEN left ELSE highWaterMark
       IN  IF body.state = "open"
           THEN /\ rs' = [rs EXCEPT !.pos = rs.pos + n]
                /\ body' = [body EXCEPT !.bytes = body.bytes + n]
           ELSE \* the write to a destroyed body returns false and no 'drain'
                \* follows: the read stream stays paused
                /\ rs' = [rs EXCEPT !.pos = rs.pos + n, !.state = "paused"]
                /\ UNCHANGED body
    /\ UNCHANGED <<files, imgReq, imgResp, ops, uncaught>>
    /\ UNCHANGED <<editVars, concVars>>

\* a read finds nothing left: 'end'
StreamEnd ==
    /\ rs.state = "open"
    /\ rs.pos >= files[rs.path].size
    /\ rs' = [rs EXCEPT !.state = "closed"]
    /\ body' = onEnd(body).body
    /\ uncaught' = onEnd(body).threw
    /\ UNCHANGED <<files, imgReq, imgResp, ops>>
    /\ UNCHANGED <<editVars, concVars>>

\* a read of the open file fails: 'error'
StreamError ==
    /\ rs.state = "open"
    /\ rs' = [rs EXCEPT !.state = "errored"]
    /\ body' = onError(body).body
    /\ uncaught' = onError(body).threw
    /\ UNCHANGED <<files, imgReq, imgResp, ops>>
    /\ UNCHANGED <<editVars, concVars>>

\* the client goes away: the response body is cancelled and the adapter
\* destroys the PassThrough; pipe() answers the close of its destination by
\* unpiping, which pauses the read stream and leaves it open
ClientDisconnect ==
    /\ imgResp.status = 200
    /\ body.state = "open"
    /\ body' = [body EXCEPT !.state = "destroyed"]
    /\ rs' = IF rs.state = "open" THEN [rs EXCEPT !.state = "paused"] ELSE rs
    /\ UNCHANGED <<files, imgReq, imgResp, ops, uncaught>>
    /\ UNCHANGED <<editVars, concVars>>

ServedPath ==
    IF imgReq.imageId \in DOMAIN Images
    THEN Images[imgReq.imageId].filePath ELSE ""

\* another process rewrites a file in place
FsResize ==
    \E p \in Paths, n \in FileSizes :
        /\ files[p].linked
        /\ n # files[p].size
        /\ files' = [files EXCEPT ![p].size = n]
        /\ imgReq' = [imgReq EXCEPT
                        !.fileChanged = @ \/ (Streaming /\ p = ServedPath)]
        /\ UNCHANGED <<imgResp, ops, rs, body, uncaught>>
        /\ UNCHANGED <<editVars, concVars>>

\* another process removes a file; an open descriptor keeps its bytes
FsUnlink ==
    \E p \in Paths :
        /\ files[p].linked
        /\ files' = [files EXCEPT ![p].linked = FALSE]
        /\ imgReq' = [imgReq EXCEPT
                        !.fileChanged = @ \/ (Streaming /\ p = ServedPath)]
        /\ UNCHANGED <<imgResp, ops, rs, body, uncaught>>
        /\ UNCHANGED <<editVars, concVars>>

NextImage ==
    \/ ImageRequest \/ StreamOpen \/ StreamRead \/ StreamEnd \/ StreamError
    \/ ClientDisconnect \/ FsResize \/ FsUnlink

----------------------------------------------------------------------------
(* Specifications *)

----------------------------------------------------------------------------
(* Two invocations of action running concurrently on the same note.  An    *)
(* async function runs without interruption between its await points:      *)
(* request.formData() is the first; versions 3 and 4 also await            *)
(* updateNote, whose write lands at some point before the promise          *)
(* resolves.  Versions 1 and 2 call db.note.update synchronously.          *)

Requests == {1, 2}

\* both invocations edit this note
ConcParams == [username |-> "alice", noteId |-> "n1"]

\* bodies of the concurrent posts: two valid pairs that differ in title and
\* content, and bodies that fail validation
ConcForms ==
    { Form(Str(5, "Hello"), Str(5, "World"), NoFile),
      Form(Str(1, "T"), Str(1, "C"), NoFile),
      Form(Empty, Str(5, "World"), NoFile),
      Form(Str(1, "T"), Str(contentMaxLength + 1, "C..."), NoFile),
      Form(Str(5, "Hello"), Null, NoFile) }

Idle == [pc |-> "idle", v |-> 0, form |-> NoForm, resp |-> NoResponse]

InitConc ==
    /\ inflight = [i \in Requests |-> Idle]
    /\ applied = <<>>

\* action is invoked: the param check passes and request.formData() is
\* awaited
Receive ==
    \E i \in Requests, v \in Versions, formData \in ConcForms :
        /\ inflight[i].pc = "idle"
        /\ inflight' = [inflight EXCEPT ![i] =
              [pc |-> "formData", v |-> v, form |-> formData,
               resp |-> NoResponse]]
        /\ UNCHANGED <<store, applied>>
        /\ UNCHANGED <<req, resp, updates, passed, submits, client>>
        /\ UNCHANGED imageVars

\* the form data has arrived: the rest of the function runs up to its return
\* (versions 1 and 2, and every rejected submission) or up to the await of
\* updateNote (versions 3 and 4)
Continue ==
    \E i \in Requests :
        LET r == inflight[i]
            out == action(r.v, ConcParams, r.form, store)
        IN  /\ r.pc = "formData"
            /\ IF out.calls = 1 /\ r.v \in {3, 4}
               THEN /\ inflight' = [inflight EXCEPT ![i].pc = "updateNote"]
                    /\ UNCHANGED <<store, applied>>
               ELSE /\ inflight' = [inflight EXCEPT ![i].pc = "done",
                                                    ![i].resp = out.resp]
                    /\ store' = out.db
                    /\ applied' = IF out.calls = 1 THEN Append(applied, i)
                                  ELSE applied
            /\ UNCHANGED <<req, resp, updates, passed, submits, client>>
            /\ UNCHANGED imageVars

\* updateNote writes the note and its promise resolves: the redirect is
\* returned
Resolve ==
    \E i \in Requests :
        LET r == inflight[i]
            out == action(r.v, ConcParams, r.form, store)
        IN  /\ r.pc = "updateNote"
            /\ inflight' = [inflight EXCEPT ![i].pc = "done",
                                            ![i].resp = out.resp]
            /\ store' = out.db
            /\ applied' = Append(applied, i)
            /\ UNCHANGED <<req, resp, updates, passed, submits, client>>
            /\ UNCHANGED imageVars

NextConc == Receive \/ Continue \/ Resolve

Init == InitEdit /\ InitImage /\ InitConc

\* the edit route
Spec == Init /\ [][NextEdit]_vars

\* the image route
ImageSpec == Init /\ [][NextImage]_vars

\* behaviours of two concurrent submissions to one note
ConcSpec == Init /\ [][NextConc]_vars

----------------------------------------------------------------------------
(* Properties of the edit route *)

\* the rule set of the editor: title 1..1000 and content 1..10000 characters
TitleInRange(t) == IsString(t) /\ t.len >= 1 /\ t.len <= 1000
ContentInRange(c) == IsString(c) /\ c.len >= 1 /\ c.len <= 10000
RulesPass(form) == TitleInRange(form.title) /\ ContentInRange(form.content)

HasErrorList(r) == r.structured /\ hasErrors(r.errors)
IsSubmission == req.kind = "submit" /\ req.params.noteId # NoParam

(* C1: a submission whose result carries a non-empty error list (or is       *)
(* rejected with 400) neither mutates the Note Store nor calls update; a    *)
(* submission that passes validation makes exactly one update call; after   *)
(* any sequence of submissions the number of update calls equals the number *)
(* of submissions that passed validation.                                   *)
C1_ValidateThenCommit ==
    [][ submits' = submits + 1 =>
          /\ (HasErrorList(resp') \/ resp'.status = 400) =>
                 (store' = store /\ updates' = updates)
          /\ (RulesPass(req'.form) /\ req'.params.noteId # NoParam) =>
                 (~HasErrorList(resp') /\ updates' = updates + 1)
          /\ updates' = passed' ]_vars

C1_Witness ==
    /\ submits = 2 /\ updates = 1 /\ passed = 1
    /\ HasErrorList(resp) /\ store["n1"].title = Str(5, "Hello")

(* C2: with a valid content, a title of length 0 or above 1000 fails        *)
(* validation with a non-empty title error list and an empty content error  *)
(* list; a title of length 1..1000 (1 and 1000 included) passes with an     *)
(* empty title error list.                                                  *)
C2_TitleRule ==
    (IsSubmission /\ IsString(req.form.title)
        /\ ContentInRange(req.form.content)) =>
        IF req.form.title.len = 0 \/ req.form.title.len > 1000
        THEN /\ resp.status = 400
             /\ Len(resp.errors.title) > 0
             /\ Len(resp.errors.content) = 0
        ELSE /\ resp.status # 400
             /\ Len(resp.errors.title) = 0

C2_Witness ==
    /\ IsSubmission /\ req.form.title.len = 1001
    /\ ContentInRange(req.form.content)
    /\ resp.status = 400 /\ Len(resp.errors.title) > 0

(* C3: with a valid title, a content of length 0 or above 10000 fails       *)
(* validation with the error recorded in the content field's error list and *)
(* not in the title field's list; a content of length 1..10000 passes.      *)
C3_ContentRule ==
    (IsSubmission /\ IsString(req.form.content)
        /\ TitleInRange(req.form.title)) =>
        IF req.form.content.len = 0 \/ req.form.content.len > 10000
        THEN /\ resp.status = 400
             /\ Len(resp.errors.content) > 0
             /\ Len(resp.errors.title) = 0
        ELSE resp.status # 400

(* C4: a submission with valid title T and content C to an existing note N  *)
(* of user U leaves the stored note N with title T and content C and is     *)
(* answered by a redirect to exactly /users/U/notes/N; submitting the same  *)
(* values again leaves the store as it is after the first submission.       *)
C4_UpdateAndRedirect ==
    (req.kind = "submit" /\ RulesPass(req.form)
        /\ req.params.noteId \in DOMAIN store) =>
        /\ store[req.params.noteId] =
              [title |-> req.form.title, content |-> req.form.content]
        /\ resp.status = 302
        /\ resp.location =
              <<"/users/", req.params.username, "/notes/", req.params.noteId>>
        /\ action(req.v, req.params, req.form, store).db = store

C4_Witness ==
    /\ submits = 2 /\ updates = 2 /\ req.kind = "submit"
    /\ req.params = [username |-> "alice", noteId |-> "n1"]
    /\ store["n1"] = [title |-> Str(5, "Hello"), content |-> Str(5, "World")]
    /\ resp.location = <<"/users/", "alice", "/notes/", "n1">>

(* C5: a request to the edit route (loader or action, the form itself being *)
(* valid) whose note id does not resolve in the Note Store is answered with *)
(* status 404, never with a success response.                               *)
C5_UnknownNoteIs404 ==
    (/\ req.kind \in {"load", "submit"}
     /\ req.params.noteId # NoParam
     /\ req.params.noteId \notin DOMAIN store
     /\ req.kind = "submit" => RulesPass(req.form)) =>
        resp.status = 404

(* C6: a submission that fails validation is answered with status 400 and a *)
(* payload that holds the structured error lists and the submitted field    *)
(* values, and the form rendered from it shows the submitted values.        *)
C6_ErrorsWithSubmittedValues ==
    (IsSubmission /\ ~RulesPass(req.form)) =>
        /\ resp.status = 400
        /\ resp.structured
        /\ resp.echoed
        /\ resp.values = [title |-> req.form.title, content |-> req.form.content]
        /\ req.params.noteId \in DOMAIN store =>
              NoteEdit(req.v, loader_note(req.params, store), resp) =
                  [title |-> req.form.title, content |-> req.form.content]

\* 3 MiB
MaxImageBytes == 3 * 1024 * 1024

(* C7: a submission that carries an image file larger than 3 MiB fails      *)
(* validation (status 400, a non-empty error list) and persists nothing; an *)
(* image of at most 3 MiB does not make validation fail.                    *)
C7_ImageSizeRule ==
    (IsSubmission /\ req.form.image.present /\ RulesPass(req.form)) =>
        IF req.form.image.size > MaxImageBytes
        THEN resp.status = 400 /\ HasErrorList(resp)
        ELSE resp.status # 400

----------------------------------------------------------------------------
(* Properties of the image route *)

ImageResolves == imgReq.imageId \in DOMAIN Images

(* C8 as stated: a 200 response announces as content-length the number of   *)
(* bytes its body delivers (the size of the file when its bytes are read).  *)
C8_LengthIsBytesDelivered ==
    (imgResp.status = 200 /\ body.state = "ended") =>
        imgResp.headers.contentLength = toString(body.bytes)

\* the headers of the response in the state, against the request
C8_Headers ==
    /\ ImageResolves => imgResp.status \in {200, 500}
    /\ imgResp.status = 500 => (imgResp.message = "ENOENT" /\ rs.state = "none")
    /\ imgResp.status = 200 =>
          /\ ImageResolves
          /\ imgResp.headers.contentType = Images[imgReq.imageId].contentType
          /\ imgResp.headers.contentDisposition =
                <<"inline; filename=\"", imgReq.imageId, "\"">>
          /\ imgResp.headers.cacheControl =
                "public, max-age=35136000, immutable"
          /\ (body.state = "ended" /\ ~imgReq.fileChanged) =>
                imgResp.headers.contentLength = toString(body.bytes)

(* C8 amended: for an image id that resolves in the store and whose file    *)
(* the stat finds, the loader responds 200 with content-type = the stored   *)
(* content type, content-length = the byte size the stat reported before    *)
(* the read stream was created, content-disposition = inline;               *)
(* filename="{imageId}" and cache-control = public, max-age=35136000,       *)
(* immutable; the announced length equals the number of bytes delivered     *)
(* when the file is not changed after the stat and the read ends.           *)
C8_LengthIsStatSize ==
    [][ /\ (rs.state # "created" /\ rs'.state = "created") =>
              /\ imgResp'.status = 200
              /\ imgResp'.headers.contentLength =
                    toString(files[rs'.path].size)
        /\ (~Streaming /\ imgReq'.imageId \in DOMAIN Images
               /\ files[Images[imgReq'.imageId].filePath].linked
               /\ imgResp' # imgResp) =>
              imgResp'.status = 200
        /\ C8_Headers' ]_vars

C8_Witness ==
    /\ imgResp.status = 200 /\ imgReq.imageId = "x1"
    /\ body.state = "ended" /\ body.bytes = 12345
    /\ imgResp.headers.contentLength = <<1, 2, 3, 4, 5>>
    /\ imgResp.headers.contentType = "image/jpeg"

(* C9: the image loader fails before it touches the file system: without an *)
(* image id it answers 400 before any store lookup; with an id that does    *)
(* not resolve it answers 404 "Image Not Found" after the lookup and before *)
(* any stat or read stream.                                                 *)
C9_FailsBeforeFileSystem ==
    /\ (imgResp.status # 0 /\ imgReq.imageId = NoParam) =>
          /\ imgResp.status = 400
          /\ ops = <<>>
          /\ rs.state = "none"
    /\ (imgReq.imageId # NoParam /\ ~ImageResolves) =>
          /\ imgResp.status = 404
          /\ imgResp.message = "Image Not Found"
          /\ ops = <<"findFirst">>
          /\ rs.state = "none"

C9_Witness ==
    /\ imgReq.imageId = "nope" /\ imgResp.status = 404
    /\ ops = <<"findFirst">>

(* C10: once the read stream has raised an error, the response body is in   *)
(* an errored state (it neither stays open nor ends normally).              *)
C10_ReadErrorErrorsBody ==
    rs.state = "errored" => body.state = "errored"

(* C11: on every exit path of a streaming response both streams end up     *)
(* closed; in particular, once the output stream has been closed or         *)
(* destroyed and no stream event is pending, the file read stream is not    *)
(* left open.                                                               *)
C11_ReadStreamReleased ==
    (body.state \in {"ended", "destroyed"}
        /\ rs.state \notin {"created", "open"}) =>
        rs.state \in {"closed", "errored"}

----------------------------------------------------------------------------
(* Properties of the edit form in the browser *)

FromForm == client.origin = "form"

(* C12 as stated: once client-side behaviour is active the form blocks a    *)
(* submit exactly when the server would answer 400, with the same field     *)
(* errors; before it is active no submit of the form is blocked.            *)
C12_ClientMatchesServer ==
    FromForm =>
        IF client.js
        THEN /\ (req.kind = "blocked") <=> ~RulesPass(req.form)
             /\ req.kind = "blocked" =>
                   client.errors =
                       action(req.v, req.params, req.form, store).resp.errors
        ELSE req.kind # "blocked"

(* C12 amended: in the useForm version, once hydrated, onValidate blocks a  *)
(* submit exactly when the action would answer 400 and shows the same field *)
(* errors; before hydration the second and third versions (noValidate =     *)
(* isHydrated) let the browser block a submit whose title or content is     *)
(* empty; in every other case nothing is checked before the submit; and a   *)
(* submit that is not blocked reaches the server's validation.              *)
C12_PreSubmitChecks ==
    [][ (submits' = submits + 1 /\ client'.origin = "form") =>
          LET v == req'.v
              f == req'.form
              js == client.hydrated
              blocked == req'.kind = "blocked"
              srv == action(v, req'.params, f, store)
          IN  /\ (v = 4 /\ js) =>
                    /\ blocked <=> srv.resp.status = 400
                    /\ blocked => client'.errors = srv.resp.errors
              /\ (v \in {2, 3} /\ ~js) =>
                    (blocked <=> (f.title = Empty \/ f.content = Empty))
              /\ (v = 1 \/ (v \in {2, 3} /\ js) \/ (v = 4 /\ ~js)) => ~blocked
              /\ ~blocked =>
                    (req'.kind = "submit" /\ resp' = srv.resp
                        /\ store' = srv.db) ]_vars

C12_Witness ==
    /\ FromForm /\ client.js /\ req.v = 4 /\ req.kind = "blocked"
    /\ req.form.title = Str(5, "Hello")
    /\ Len(client.errors.content) > 0

\* the first invalid element in document order: the form, the title, the
\* content
FirstInvalid(errors) ==
    IF Len(errors.formErrors) > 0 THEN "form"
    ELSE IF Len(errors.title) > 0 THEN "title"
    ELSE "content"

(* C13: after a failed submission of the form (in the versions that mark    *)
(* invalid elements with aria-invalid) focus is on the first invalid        *)
(* element in document order: the form if it carries a form-level error,    *)
(* otherwise the first invalid field, be it the title or the content.       *)
C13_FocusFirstInvalid ==
    (FromForm /\ client.hydrated /\ req.kind = "submit" /\ req.v >= 2
        /\ HasErrorList(resp)) =>
        client.focus = FirstInvalid(resp.errors)

----------------------------------------------------------------------------
(* Properties of the Note Store under the edit flow *)

(* C14: every stored note has a title of 1..1000 and a content of 1..10000  *)
(* characters after any sequence of submissions to the edit action, valid,  *)
(* invalid or with missing fields.                                          *)
C14_StoredNotesInRange ==
    \A id \in DOMAIN store :
        TitleInRange(store[id].title) /\ ContentInRange(store[id].content)

C14_Witness ==
    /\ submits = 2 /\ updates = 1 /\ resp.status = 400
    /\ store["n1"].title.len = 1000

(* C15: a submission to the edit action for note id N leaves the set of     *)
(* note ids as it is and leaves the title and content of every note with    *)
(* another id unchanged, whether it succeeds or fails.                      *)
C15_OnlyTheNoteChanges ==
    [][ submits' = submits + 1 =>
          /\ DOMAIN store' = DOMAIN store
          /\ \A id \in DOMAIN store :
                id # req'.params.noteId => store'[id] = store[id] ]_vars

C15_Witness ==
    /\ submits = 2 /\ updates = 1 /\ resp.status = 302
    /\ req.params.noteId = "n1"
    /\ store["n1"] # InitStore["n1"]
    /\ store["n2"] = InitStore["n2"]

----------------------------------------------------------------------------
(* Concurrent submissions *)

\* the (title, content) pair the invocation in slot i submitted
Pair(i) == [title |-> inflight[i].form.title,
            content |-> inflight[i].form.content]

(* C16: for any interleaving of two concurrent submissions to the same      *)
(* note, the stored note holds the pair of the valid submission whose       *)
(* update was applied last (or its old pair when none was applied), never a *)
(* mix of two pairs; only valid submissions are applied, and each valid     *)
(* submission that has been answered was applied.                           *)
C16_LastWriteWins ==
    /\ store["n1"] = IF applied = <<>> THEN InitStore["n1"]
                     ELSE Pair(applied[Len(applied)])
    /\ \A k \in 1..Len(applied) : RulesPass(inflight[applied[k]].form)
    /\ \A i \in Requests :
          inflight[i].pc = "done" /\ RulesPass(inflight[i].form) =>
              /\ inflight[i].resp.status = 302
              /\ \E k \in 1..Len(applied) : applied[k] = i
    /\ \A i \in Requests :
          inflight[i].pc = "done" /\ ~RulesPass(inflight[i].form) =>
              inflight[i].resp.status = 400

\* the invocation received in slot 1 is overtaken: slot 2's update lands
\* first, slot 1's last, with pairs that differ in title and in content
C16_Witness ==
    /\ \A i \in Requests : inflight[i].pc = "done"
    /\ applied = <<2, 1>>
    /\ Pair(1).title # Pair(2).title /\ Pair(1).content # Pair(2).content
    /\ store["n1"] = Pair(1)

====
